---- MODULE Spec2Model ----
(***************************************************************************)
(* koala-diff: the Rust core diff_files (src/lib.rs).                      *)
(*                                                                         *)
(* diff_files scans two files lazily, reads their schemas, plans an inner  *)
(* join on the key columns, probes height and first-key uniqueness of each *)
(* file, applies the join safety guard, runs one statistics pass and one   *)
(* sample pass over the joined view and assembles the report dictionary.   *)
(*                                                                         *)
(* A dataset is a sequence of row groups [row, n]: n consecutive copies of *)
(* the same row (a run-length encoding, so that row counts above the       *)
(* guard's threshold stay cheap).  A cell is an option: <<>> is null,      *)
(* <<v>> a value.  Every engine pass may fail (I/O, resources).            *)
(***************************************************************************)
EXTENDS Integers, Sequences, FiniteSets, TLC

VARIABLES
    file_a,          \* argument: the dataset behind path file_a
    file_b,          \* argument: the dataset behind path file_b
    key_cols,        \* argument _key_cols
    pc,              \* position in diff_files
    lf_a,            \* LazyFrame of file_a (None before the scan)
    lf_b,            \* LazyFrame of file_b
    schema_a,        \* collected schema of lf_a
    schema_b,        \* collected schema of lf_b
    joined_lf,       \* the lazy join plan (None before it is built)
    meta_a,          \* (height_a, unique_a)
    meta_b,          \* (height_b, unique_b)
    stats_res,       \* the one-row frame of the statistics pass
    global_samples,  \* Option<DataFrame>: the sample buffer
    report,          \* the returned dictionary (None until returned)
    err,             \* the error the call returned ("" when none)
    passes,          \* history: engine passes issued on row data, in order
    failed,          \* history: engine calls that failed
    prev_report      \* caller: the report of an earlier call on (B, A, K)

vars == <<file_a, file_b, key_cols, pc, lf_a, lf_b, schema_a, schema_b,
          joined_lf, meta_a, meta_b, stats_res, global_samples, report,
          err, passes, failed, prev_report>>

----------------------------------------------------------------------------
(* Bounds of the checked inputs and constants of the program.              *)

MaxVal == 1
MaxMult == 2
DupThreshold == 1000
GlobalCap == 100
PerColumnCap == 5

----------------------------------------------------------------------------
(* Options, saturating arithmetic.                                         *)

None == <<>>
Some(v) == <<v>>
Unwrap(o) == o[1]

Min(a, b) == IF a <= b THEN a ELSE b

SaturatingSub(a, b) == IF a >= b THEN a - b ELSE 0

\* `x as usize` of the f64 extracted from a count: saturates below at 0.
AsUsize(x) == IF x < 0 THEN 0 ELSE x

\* try_extract(..).unwrap_or(0): a null aggregate reads as 0.
ExtractOr0(o) == IF o = None THEN 0 ELSE Unwrap(o)

----------------------------------------------------------------------------
(* Schemas.                                                                *)

ColNames(schema) == {schema[i].name : i \in DOMAIN schema}

SchemaContains(schema, name) == name \in ColNames(schema)

SchemaGet(schema, name) ==
    schema[CHOOSE i \in DOMAIN schema : schema[i].name = name].dtype

IsNumeric(dtype) == dtype \in {"Int64", "Float64"}

KeysContains(keys, name) == \E i \in DOMAIN keys : keys[i] = name

\* A column of the key list that is absent from a schema makes every plan
\* that references it fail when the engine resolves it.
KeysResolve(schema, keys) == \A i \in DOMAIN keys : SchemaContains(schema, keys[i])

----------------------------------------------------------------------------
(* The engine: len, n_unique, inner join.                                  *)

RECURSIVE Height(_)
Height(groups) ==
    IF groups = <<>> THEN 0 ELSE Head(groups).n + Height(Tail(groups))

RECURSIVE DistinctValues(_, _, _)
DistinctValues(groups, key, seen) ==
    IF groups = <<>> THEN seen
    ELSE DistinctValues(Tail(groups), key, seen \cup {Head(groups).row[key]})

\* n_unique counts null as one value.
NUnique(groups, key) == Cardinality(DistinctValues(groups, key, {}))

\* Inner join equality on every key column; a null key matches nothing.
KeysMatch(l, r, keys) ==
    \A i \in DOMAIN keys : l[keys[i]] # None /\ l[keys[i]] = r[keys[i]]

RECURSIVE JoinOne(_, _, _)
JoinOne(g, right, keys) ==
    IF right = <<>> THEN <<>>
    ELSE LET h == Head(right)
             rest == JoinOne(g, Tail(right), keys)
         IN IF KeysMatch(g.row, h.row, keys)
            THEN <<[l |-> g.row, r |-> h.row, n |-> g.n * h.n]>> \o rest
            ELSE rest

\* One joined group per matching pair of groups: n_left * n_right rows.
\* l holds the left columns, r the right ones (suffix "_right" on collision).
RECURSIVE InnerJoin(_, _, _)
InnerJoin(left, right, keys) ==
    IF left = <<>> THEN <<>>
    ELSE JoinOne(Head(left), right, keys) \o InnerJoin(Tail(left), right, keys)

JoinedRows == InnerJoin(lf_a[1].rows, lf_b[1].rows, key_cols)

----------------------------------------------------------------------------
(* Expressions of the statistics query, evaluated on one joined row.       *)

\* EqMissing with a fault: `eq`: a null on either side yields null, which the
\* sum skips.
EqNullPropagating(a, b) ==
    IF a = None \/ b = None THEN None ELSE Some(Unwrap(a) = Unwrap(b))

\* eq_missing: two nulls are equal, a null and a value are not.
EqMissing(a, b) ==
    IF a = None /\ b = None THEN Some(TRUE)
    ELSE IF a = None \/ b = None THEN Some(FALSE)
    ELSE Some(Unwrap(a) = Unwrap(b))

NotExpr(x) == IF x = None THEN None ELSE Some(~Unwrap(x))

\* Kleene or, as the engine evaluates `or` on nullable booleans.
OrExpr(x, y) ==
    IF x = Some(TRUE) \/ y = Some(TRUE) THEN Some(TRUE)
    ELSE IF x = None \/ y = None THEN None
    ELSE Some(FALSE)

\* col(name).eq_missing(col(name_right)).not()
IsDiffExpr(jr, name) == NotExpr(EqMissing(jr.l[name], jr.r[name]))

\* The non-key columns of schema A that schema B holds too, in A's order.
ComparedCols(sa, sb, keys) ==
    LET names == [i \in DOMAIN sa |-> sa[i].name]
        Test(c) == ~KeysContains(keys, c) /\ SchemaContains(sb, c)
    IN SelectSeq(names, Test)

\* MaskExpr with a fault: the mask overwritten by each column, not or-ed.
MaskLastColumnOnly(jr, cols) == IsDiffExpr(jr, cols[Len(cols)])

\* total_modified_mask: the or of every compared column's is_diff_expr.
RECURSIVE MaskExpr(_, _)
MaskExpr(jr, cols) ==
    IF Len(cols) = 1 THEN IsDiffExpr(jr, cols[1])
    ELSE OrExpr(MaskExpr(jr, SubSeq(cols, 1, Len(cols) - 1)),
                IsDiffExpr(jr, cols[Len(cols)]))

\* bool.cast(Float64).sum(): the rows where the flag is true; nulls skipped.
RECURSIVE SumCast(_)
SumCast(col) ==
    IF col = <<>> THEN 0
    ELSE (IF Head(col).v = Some(TRUE) THEN Head(col).n ELSE 0) + SumCast(Tail(col))

DiffCount(joined, name) ==
    SumCast([i \in DOMAIN joined |-> [v |-> IsDiffExpr(joined[i], name), n |-> joined[i].n]])

NullCount(joined, side, name) ==
    SumCast([i \in DOMAIN joined |->
                [v |-> Some(joined[i][side][name] = None), n |-> joined[i].n]])

\* when(diff > 0).then(diff).otherwise(diff * -1), null when a side is null.
AbsDiff(a, b) ==
    IF a = None \/ b = None THEN None
    ELSE LET d == Unwrap(a) - Unwrap(b) IN Some(IF d > 0 THEN d ELSE d * (-1))

\* max(): nulls skipped, null over no value.
RECURSIVE MaxAgg(_)
MaxAgg(col) ==
    IF col = <<>> THEN None
    ELSE LET m == MaxAgg(Tail(col))
             h == Head(col)
         IN IF h = None THEN m
            ELSE IF m = None THEN h
            ELSE IF Unwrap(h) >= Unwrap(m) THEN h ELSE m

MaxDiff(joined, name) ==
    MaxAgg([i \in DOMAIN joined |-> AbsDiff(joined[i].l[name], joined[i].r[name])])

TotalModified(joined, cols) ==
    SumCast([i \in DOMAIN joined |-> [v |-> MaskExpr(joined[i], cols), n |-> joined[i].n]])

\* BothNumeric with a fault: only the source type is looked at.
SourceNumeric(sa, sb, name) == IsNumeric(SchemaGet(sa, name))

BothNumeric(sa, sb, name) ==
    IsNumeric(SchemaGet(sa, name)) /\ IsNumeric(SchemaGet(sb, name))

Range(s) == {s[i] : i \in DOMAIN s}

\* The aggregation list of the statistics query, evaluated in one pass.
StatsQuery(joined, sa, sb, keys) ==
    LET cols == ComparedCols(sa, sb, keys)
    IN [total_matched |-> Height(joined),
        diff_count |-> [c \in Range(cols) |-> DiffCount(joined, c)],
        null_a |-> [c \in Range(cols) |-> NullCount(joined, "l", c)],
        null_b |-> [c \in Range(cols) |-> NullCount(joined, "r", c)],
        max_diff |-> [c \in {x \in Range(cols) : BothNumeric(sa, sb, x)} |->
                         MaxDiff(joined, c)],
        total_modified |-> IF cols = <<>> THEN None
                           ELSE Some(TotalModified(joined, cols))]

----------------------------------------------------------------------------
(* The sample pass: filter(mask).limit(100), then the per-column scan.     *)

FilterMask(joined, cols) ==
    LET Test(jr) == MaskExpr(jr, cols) = Some(TRUE) IN SelectSeq(joined, Test)

RECURSIVE Limit(_, _)
Limit(groups, k) ==
    IF groups = <<>> \/ k = 0 THEN <<>>
    ELSE LET h == Head(groups)
         IN IF h.n >= k THEN <<[h EXCEPT !.n = k]>>
            ELSE <<h>> \o Limit(Tail(groups), k - h.n)

Reorder(groups, p) == [i \in DOMAIN groups |-> groups[p[i]]]

Sample(jr, name, keys) ==
    [key |-> [i \in DOMAIN keys |-> <<keys[i], jr.l[keys[i]]>>],
     value |-> <<jr.l[name], jr.r[name]>>]

\* CollectSamples with a fault: the scan without its break at the cap.
RECURSIVE CollectSamplesNoBreak(_, _, _, _)
CollectSamplesNoBreak(buf, name, keys, cap) ==
    IF buf = <<>> THEN <<>>
    ELSE LET h == Head(buf)
         IN IF h.l[name] # h.r[name]
            THEN [i \in 1..h.n |-> Sample(h, name, keys)]
                 \o CollectSamplesNoBreak(Tail(buf), name, keys, cap)
            ELSE CollectSamplesNoBreak(Tail(buf), name, keys, cap)

\* The scan of the buffer for one column: rows where val_a != val_b
\* (AnyValue equality: null equals null), stopped at `cap` samples.
RECURSIVE CollectSamples(_, _, _, _)
CollectSamples(buf, name, keys, cap) ==
    IF buf = <<>> \/ cap = 0 THEN <<>>
    ELSE LET h == Head(buf)
             take == Min(h.n, cap)
         IN IF h.l[name] # h.r[name]
            THEN [i \in 1..take |-> Sample(h, name, keys)]
                 \o CollectSamples(Tail(buf), name, keys, cap - take)
            ELSE CollectSamples(Tail(buf), name, keys, cap)

----------------------------------------------------------------------------
(* Assembly of the report.                                                 *)

MatchedOf(res) == AsUsize(res.total_matched)

\* ModifiedRowsCount with a fault: the per-column counts added up.
RECURSIVE ModifiedRowsCountBySum(_, _)
ModifiedRowsCountBySum(res, cols) ==
    IF cols = <<>> THEN 0
    ELSE AsUsize(res.diff_count[Head(cols)]) + ModifiedRowsCountBySum(res, Tail(cols))

ModifiedRowsCount(res, cols) ==
    IF res.total_modified # None THEN AsUsize(ExtractOr0(res.total_modified)) ELSE 0

ColumnStat(name, sa, sb, keys, res, samples) ==
    LET matched == MatchedOf(res)
        is_key == KeysContains(keys, name)
        base == [column_name |-> name, is_key |-> is_key,
                 source_dtype |-> SchemaGet(sa, name)]
    IN IF ~SchemaContains(sb, name)
       THEN base @@ [target_dtype |-> "MISSING", all_match |-> FALSE]
       ELSE LET both == base @@ [target_dtype |-> SchemaGet(sb, name),
                                 total_count |-> matched]
            IN IF is_key
               THEN both @@ [match_count |-> matched, non_match_count |-> 0,
                             match_rate |-> <<100, 1>>, all_match |-> TRUE]
               ELSE LET diff_count == AsUsize(res.diff_count[name])
                        match_count == SaturatingSub(matched, diff_count)
                        counts == [match_count |-> match_count,
                                   non_match_count |-> diff_count,
                                   match_rate |-> IF matched > 0
                                                  THEN <<match_count * 100, matched>>
                                                  ELSE <<100, 1>>,
                                   all_match |-> diff_count = 0,
                                   null_count_diff |-> res.null_b[name] - res.null_a[name]]
                        maxd == IF BothNumeric(sa, sb, name) /\ name \in DOMAIN res.max_diff
                                THEN [max_value_diff |-> ExtractOr0(res.max_diff[name])]
                                ELSE <<>>
                        smpl == IF diff_count > 0 /\ samples # None
                                THEN [mismatched_samples |->
                                         CollectSamples(Unwrap(samples), name, keys, PerColumnCap)]
                                ELSE <<>>
                    IN both @@ counts @@ maxd @@ smpl

\* let removed = height_a.saturating_sub(matched);
Removed(ma, mb, matched) == SaturatingSub(ma[1], matched)

\* Added with a fault: height_a taken for height_b.
AddedFromHeightA(ma, mb, matched) == SaturatingSub(ma[1], matched)

\* let added = height_b.saturating_sub(matched);
Added(ma, mb, matched) == SaturatingSub(mb[1], matched)

Report(sa, sb, keys, ma, mb, res, samples) ==
    LET cols == ComparedCols(sa, sb, keys)
        matched == MatchedOf(res)
        modified == ModifiedRowsCount(res, cols)
    IN [total_rows_a |-> ma[1],
        total_rows_b |-> mb[1],
        joined_count |-> matched,
        identical_rows_count |-> SaturatingSub(matched, modified),
        modified_rows_count |-> modified,
        added |-> Added(ma, mb, matched),
        removed |-> Removed(ma, mb, matched),
        column_stats |-> [c \in ColNames(sa) |->
                             ColumnStat(c, sa, sb, keys, res, samples)]]

----------------------------------------------------------------------------
(* diff_files, one action per step.  An error return leaves pc = "error".  *)

locals == <<lf_a, lf_b, schema_a, schema_b, joined_lf, meta_a, meta_b,
            stats_res, global_samples, report>>
outer == <<file_a, file_b, key_cols, prev_report>>

Return(kind) == pc' = "error" /\ err' = kind

\* let mut lf_a = scan_df(&file_a)?;
ScanA ==
    /\ pc = "scan_a"
    /\ \E ok \in BOOLEAN :
          IF ok
          THEN /\ lf_a' = Some(file_a)
               /\ pc' = "scan_b"
               /\ UNCHANGED <<err, failed>>
          ELSE /\ Return("IOError")
               /\ failed' = failed \cup {"scan_a"}
               /\ UNCHANGED lf_a
    /\ UNCHANGED <<outer, lf_b, schema_a, schema_b, joined_lf, meta_a, meta_b,
                   stats_res, global_samples, report, passes>>

\* let mut lf_b = scan_df(&file_b)?;
ScanB ==
    /\ pc = "scan_b"
    /\ \E ok \in BOOLEAN :
          IF ok
          THEN /\ lf_b' = Some(file_b)
               /\ pc' = "schema_a"
               /\ UNCHANGED <<err, failed>>
          ELSE /\ Return("IOError")
               /\ failed' = failed \cup {"scan_b"}
               /\ UNCHANGED lf_b
    /\ UNCHANGED <<outer, lf_a, schema_a, schema_b, joined_lf, meta_a, meta_b,
                   stats_res, global_samples, report, passes>>

\* let schema_a = lf_a.collect_schema()...?;
CollectSchemaA ==
    /\ pc = "schema_a"
    /\ \E ok \in BOOLEAN :
          IF ok
          THEN /\ schema_a' = Some(Unwrap(lf_a).schema)
               /\ pc' = "schema_b"
               /\ UNCHANGED <<err, failed>>
          ELSE /\ Return("RuntimeError")
               /\ failed' = failed \cup {"schema_a"}
               /\ UNCHANGED schema_a
    /\ UNCHANGED <<outer, lf_a, lf_b, schema_b, joined_lf, meta_a, meta_b,
                   stats_res, global_samples, report, passes>>

\* let schema_b = lf_b.collect_schema()...?;
CollectSchemaB ==
    /\ pc = "schema_b"
    /\ \E ok \in BOOLEAN :
          IF ok
          THEN /\ schema_b' = Some(Unwrap(lf_b).schema)
               /\ pc' = "join"
               /\ UNCHANGED <<err, failed>>
          ELSE /\ Return("RuntimeError")
               /\ failed' = failed \cup {"schema_b"}
               /\ UNCHANGED schema_b
    /\ UNCHANGED <<outer, lf_a, lf_b, schema_a, joined_lf, meta_a, meta_b,
                   stats_res, global_samples, report, passes>>

\* let joined_lf = lf_a.clone().join(lf_b.clone(), keys, keys, Inner):
\* a lazy plan; nothing is resolved or checked here.
PlanJoin ==
    /\ pc = "join"
    /\ joined_lf' = Some([keys |-> key_cols])
    /\ pc' = "get_meta_a"
    /\ UNCHANGED <<outer, lf_a, lf_b, schema_a, schema_b, meta_a, meta_b,
                   stats_res, global_samples, report, err, passes, failed>>

\* get_meta: select([len(), col(key).n_unique()]).collect(); the warning it
\* prints when unique < total changes no state.
GetMeta(lf, key) == <<Height(lf.rows), NUnique(lf.rows, key)>>

\* let (height_a, unique_a) = get_meta(lf_a.clone(), "File A", keys_strs[0])?;
GetMetaA ==
    /\ pc = "get_meta_a"
    /\ passes' = Append(passes, "get_meta_a")
    /\ \E ok \in BOOLEAN :
          IF ok /\ SchemaContains(Unwrap(schema_a), key_cols[1])
          THEN /\ meta_a' = Some(GetMeta(Unwrap(lf_a), key_cols[1]))
               /\ pc' = "get_meta_b"
               /\ UNCHANGED <<err, failed>>
          ELSE /\ Return("RuntimeError")
               /\ failed' = failed \cup {"get_meta_a"}
               /\ UNCHANGED meta_a
    /\ UNCHANGED <<outer, lf_a, lf_b, schema_a, schema_b, joined_lf, meta_b,
                   stats_res, global_samples, report>>

\* let (height_b, unique_b) = get_meta(lf_b.clone(), "File B", keys_strs[0])?;
GetMetaB ==
    /\ pc = "get_meta_b"
    /\ passes' = Append(passes, "get_meta_b")
    /\ \E ok \in BOOLEAN :
          IF ok /\ SchemaContains(Unwrap(schema_b), key_cols[1])
          THEN /\ meta_b' = Some(GetMeta(Unwrap(lf_b), key_cols[1]))
               /\ pc' = "guard"
               /\ UNCHANGED <<err, failed>>
          ELSE /\ Return("RuntimeError")
               /\ failed' = failed \cup {"get_meta_b"}
               /\ UNCHANGED meta_b
    /\ UNCHANGED <<outer, lf_a, lf_b, schema_a, schema_b, joined_lf, meta_a,
                   stats_res, global_samples, report>>

\* GuardAborts with a fault: `||` for `&&`.
GuardAbortsOnEither(ma, mb) ==
    /\ ma[2] < ma[1] \/ mb[2] < mb[1]
    /\ ma[1] - ma[2] > DupThreshold \/ mb[1] - mb[2] > DupThreshold

\* The decision of the join safety guard on (height, unique) of both files.
GuardAborts(ma, mb) ==
    /\ ma[2] < ma[1] \/ mb[2] < mb[1]
    /\ ma[1] - ma[2] > DupThreshold
    /\ mb[1] - mb[2] > DupThreshold

\* 2.2.1 Join Safety Guard
JoinSafetyGuard ==
    /\ pc = "guard"
    /\ IF GuardAborts(Unwrap(meta_a), Unwrap(meta_b))
       THEN Return("JoinExplosion")
       ELSE pc' = "stats" /\ UNCHANGED err
    /\ UNCHANGED <<outer, locals, passes, failed>>

\* let stats_res = joined_lf.clone().select(aggs).with_new_streaming(true).collect()...?;
StatsPass ==
    /\ pc = "stats"
    /\ passes' = Append(passes, "stats")
    /\ \E ok \in BOOLEAN :
          IF /\ ok
             /\ KeysResolve(Unwrap(schema_a), key_cols)
             /\ KeysResolve(Unwrap(schema_b), key_cols)
          THEN /\ stats_res' = Some(StatsQuery(JoinedRows, Unwrap(schema_a),
                                               Unwrap(schema_b), key_cols))
               /\ pc' = "sample"
               /\ UNCHANGED <<err, failed>>
          ELSE /\ Return("RuntimeError")
               /\ failed' = failed \cup {"stats"}
               /\ UNCHANGED stats_res
    /\ UNCHANGED <<outer, lf_a, lf_b, schema_a, schema_b, joined_lf, meta_a,
                   meta_b, global_samples, report>>

\* 2.4 Global Sample Pass: joined_lf.filter(mask).limit(100).collect().ok()
\* The engine emits the joined rows in an order the API does not fix.
SamplePass ==
    /\ pc = "sample"
    /\ LET cols == ComparedCols(Unwrap(schema_a), Unwrap(schema_b), key_cols)
           rows == FilterMask(JoinedRows, cols)
       IN IF cols = <<>>
          THEN /\ global_samples' = None
               /\ UNCHANGED <<passes, failed>>
          ELSE /\ passes' = Append(passes, "sample")
               /\ \/ /\ \E p \in Permutations(DOMAIN rows) :
                           global_samples' = Some(Limit(Reorder(rows, p), GlobalCap))
                     /\ UNCHANGED failed
                  \/ /\ global_samples' = None
                     /\ failed' = failed \cup {"sample"}
    /\ pc' = "assemble"
    /\ UNCHANGED <<outer, lf_a, lf_b, schema_a, schema_b, joined_lf, meta_a,
                   meta_b, stats_res, report, err>>

\* 2.5 Assemble Stats Dictionary, Final Assembly, Ok(dict)
Assemble ==
    /\ pc = "assemble"
    /\ report' = Some(Report(Unwrap(schema_a), Unwrap(schema_b), key_cols,
                             Unwrap(meta_a), Unwrap(meta_b), Unwrap(stats_res),
                             global_samples))
    /\ pc' = "done"
    /\ UNCHANGED <<outer, lf_a, lf_b, schema_a, schema_b, joined_lf, meta_a,
                   meta_b, stats_res, global_samples, err, passes, failed>>

Next ==
    \/ ScanA
    \/ ScanB
    \/ CollectSchemaA
    \/ CollectSchemaB
    \/ PlanJoin
    \/ GetMetaA
    \/ GetMetaB
    \/ JoinSafetyGuard
    \/ StatsPass
    \/ SamplePass
    \/ Assemble

----------------------------------------------------------------------------
(* Inputs.                                                                 *)

Col(name, dtype) == [name |-> name, dtype |-> dtype]

Vals == {Some(v) : v \in 0..MaxVal}

OptVals == {None} \cup Vals

KeyVals == {Some(1), Some(2)}

Entry(fa, fb, keys) ==
    /\ file_a = fa
    /\ file_b = fb
    /\ key_cols = keys
    /\ pc = "scan_a"
    /\ lf_a = None /\ lf_b = None
    /\ schema_a = None /\ schema_b = None
    /\ joined_lf = None
    /\ meta_a = None /\ meta_b = None
    /\ stats_res = None
    /\ global_samples = None
    /\ report = None
    /\ err = ""
    /\ passes = <<>>
    /\ failed = {}
    /\ prev_report = None

File(schema, rows) == [schema |-> schema, rows |-> rows]

\* Files of a table (id, val, note): no row, one row group, or one row group
\* followed by a plain row (whose key may be null).
StatsSchema == <<Col("id", "Int64"), Col("val", "Int64"), Col("note", "String")>>

StatsMults == 1..MaxMult

StatsGroups ==
    {[row |-> [id |-> k, val |-> v, note |-> t], n |-> m] :
        k \in KeyVals, v \in OptVals, t \in {None, Some(0)}, m \in StatsMults}

PlainRows ==
    {[row |-> [id |-> k, val |-> Some(0), note |-> Some(0)], n |-> 1] :
        k \in KeyVals \cup {None}}

StatsRows ==
    {<<>>} \cup {<<g>> : g \in StatsGroups}
           \cup {<<g, h>> : g \in StatsGroups, h \in PlainRows}

StatsFiles == {File(StatsSchema, r) : r \in StatsRows}

\* The same table with one more column, "extra", that only this file holds.
WithExtra(f) ==
    File(f.schema \o <<Col("extra", "String")>>,
         [i \in DOMAIN f.rows |->
             [f.rows[i] EXCEPT !.row = f.rows[i].row @@ [extra |-> Some(1)]]])

\* diff_files(A, B, ["id"]), the same with a column only B holds, and
\* diff_files(A, B, ["id", "val", "note"]): no column left to compare.
Init ==
    \E fa \in StatsFiles, fb \in StatsFiles :
        \/ Entry(fa, fb, <<"id">>)
        \/ Entry(fa, WithExtra(fb), <<"id">>)
        \/ Entry(fa, fb, <<"id", "val", "note">>)

Spec == Init /\ [][Next]_vars

\* A caller that, once diff_files(A, B, K) has returned its report, calls
\* diff_files(B, A, K).
CallSwapped ==
    /\ pc = "done"
    /\ prev_report = None
    /\ prev_report' = report
    /\ file_a' = file_b
    /\ file_b' = file_a
    /\ pc' = "scan_a"
    /\ lf_a' = None /\ lf_b' = None
    /\ schema_a' = None /\ schema_b' = None
    /\ joined_lf' = None
    /\ meta_a' = None /\ meta_b' = None
    /\ stats_res' = None
    /\ global_samples' = None
    /\ report' = None
    /\ passes' = <<>>
    /\ failed' = {}
    /\ UNCHANGED <<key_cols, err>>

\* The second file holds a column the first lacks: each call sees it on
\* another side.
InitSym ==
    \E fa \in StatsFiles, fb \in StatsFiles : Entry(fa, WithExtra(fb), <<"id">>)

NextSym == Next \/ CallSwapped

SpecSym == InitSym /\ [][NextSym]_vars

\* Files whose row groups reach past the guard's threshold.
GuardMults == {1, DupThreshold + 1, DupThreshold + 2}

GuardGroups ==
    {[row |-> [id |-> k, val |-> v, note |-> Some(0)], n |-> m] :
        k \in KeyVals, v \in Vals, m \in GuardMults}

GuardFiles ==
    {File(StatsSchema, r) :
        r \in {<<>>} \cup {<<g>> : g \in GuardGroups}
                     \cup {<<g, h>> : g \in GuardGroups, h \in PlainRows}}

InitGuard ==
    \E fa \in GuardFiles, fb \in GuardFiles, keys \in {<<"id">>, <<"id", "val">>} :
        Entry(fa, fb, keys)

SpecGuard == InitGuard /\ [][Next]_vars

\* Files whose joins reach past the caps of the sample pass: A holds a row
\* group of key 1 and maybe one of key 2, B plain rows.
SampleMults == {1, PerColumnCap, GlobalCap - 1, GlobalCap}

SampleGroups(k) ==
    {[row |-> [id |-> Some(k), val |-> v, note |-> t], n |-> m] :
        v \in Vals, t \in Vals, m \in SampleMults}

SampleFilesA ==
    {File(StatsSchema, r) :
        r \in {<<g>> : g \in SampleGroups(1)}
              \cup {<<g, h>> : g \in SampleGroups(1), h \in SampleGroups(2)}}

SampleFilesB ==
    {File(StatsSchema, r) :
        r \in {<<g>> : g \in PlainRows} \cup {<<g, h>> : g \in PlainRows, h \in PlainRows}}

InitSample ==
    \E fa \in SampleFilesA, fb \in SampleFilesB : Entry(fa, fb, <<"id">>)

SpecSample == InitSample /\ [][Next]_vars

\* Files of differing schemas: columns missing on one side, numeric and
\* non-numeric types, a compound key.
Schemas ==
    {<<Col("id", "Int64"), Col("region", "String"), Col("val", "Int64"), Col("note", "String")>>,
     <<Col("id", "Int64"), Col("region", "String"), Col("val", "Float64"), Col("note", "String"),
       Col("extra", "String")>>,
     <<Col("id", "Int64"), Col("val", "Boolean"), Col("note", "String")>>,
     <<Col("region", "String"), Col("val", "Int64")>>,
     <<Col("id", "Int64"), Col("region", "String"), Col("note", "String")>>}

SchemaRow(schema, k, v) ==
    [c \in ColNames(schema) |->
        IF c = "id" THEN k
        ELSE IF c = "val" THEN v
        ELSE IF c = "extra" THEN Some(1)
        ELSE Some(0)]

SchemaFiles ==
    {File(sch, r) : sch \in Schemas, r \in {<<>>}} \cup
    {File(sch, <<[row |-> SchemaRow(sch, k, v), n |-> 1]>>) :
        sch \in Schemas, k \in KeyVals, v \in OptVals}

KeyLists == {<<"id">>, <<"region">>, <<"id", "region">>, <<"region", "id">>}

InitSchema ==
    \E fa \in SchemaFiles, fb \in SchemaFiles, keys \in KeyLists : Entry(fa, fb, keys)

SpecSchema == InitSchema /\ [][Next]_vars

----------------------------------------------------------------------------
(* Reference counts, taken from the two input files.                       *)

\* The pairs (i, j) of a row group of A and a row group of B with equal,
\* non-null values in every key column.
MatchingPairs(fa, fb, keys) ==
    {p \in (DOMAIN fa.rows) \X (DOMAIN fb.rows) :
        \A k \in Range(keys) :
            /\ fa.rows[p[1]].row[k] # None
            /\ fa.rows[p[1]].row[k] = fb.rows[p[2]].row[k]}

RECURSIVE SumWeights(_, _)
SumWeights(w, S) ==
    IF S = {} THEN 0
    ELSE LET x == CHOOSE y \in S : TRUE IN w[x] + SumWeights(w, S \ {x})

\* The left and the right row of a pair.
RowA(p) == file_a.rows[p[1]].row
RowB(p) == file_b.rows[p[2]].row

Matching == MatchingPairs(file_a, file_b, key_cols)

\* The number of joined rows the pairs of P stand for.
CountRows(P) ==
    SumWeights([p \in P |-> file_a.rows[p[1]].n * file_b.rows[p[2]].n], P)

\* Two cells disagree: exactly one is null, or both hold different values.
Differs(x, y) ==
    \/ (x = None) /\ (y # None)
    \/ (x # None) /\ (y = None)
    \/ x # None /\ y # None /\ Unwrap(x) # Unwrap(y)

\* The compared columns: non-key columns both files hold.
Compared ==
    (ColNames(file_a.schema) \cap ColNames(file_b.schema)) \ Range(key_cols)

Returned == report # None

----------------------------------------------------------------------------
(* Claims.                                                                 *)

\* C1: in every returned report joined_count + removed = total_rows_a and
\* joined_count + added = total_rows_b, also when key values repeat.
C1_RowCountsAddUp ==
    Returned =>
        /\ Unwrap(report).joined_count + Unwrap(report).removed = Unwrap(report).total_rows_a
        /\ Unwrap(report).joined_count + Unwrap(report).added = Unwrap(report).total_rows_b

\* C3: once an engine pass has failed, no report is returned.
C3_FailFast == failed # {} => ~Returned

\* C7: in every returned report identical_rows_count + modified_rows_count
\* = joined_count.
C7_IdenticalPlusModified ==
    Returned =>
        Unwrap(report).identical_rows_count + Unwrap(report).modified_rows_count
            = Unwrap(report).joined_count

\* C7 witness: a report with identical and with modified joined rows.
C7_Witness ==
    /\ Returned
    /\ Unwrap(report).identical_rows_count > 0
    /\ Unwrap(report).modified_rows_count > 0

\* C7, the cases the claim names: nothing to compare; an empty join.
C7_WitnessNoComparedColumn ==
    Returned /\ Compared = {} /\ Unwrap(report).joined_count > 0

C7_WitnessEmptyJoin ==
    Returned /\ Unwrap(report).joined_count = 0 /\ Unwrap(report).total_rows_a > 0

\* C9: for every compared column, non_match_count is the number of joined
\* rows whose two cells disagree (two nulls agree, a null and a value
\* disagree), and match_count + non_match_count = joined_count.
C9_NullAwareCount ==
    Returned =>
        \A c \in Compared :
            LET st == Unwrap(report).column_stats[c]
            IN /\ st.non_match_count =
                      CountRows({p \in Matching : Differs(RowA(p)[c], RowB(p)[c])})
               /\ st.match_count + st.non_match_count = Unwrap(report).joined_count

\* C9 witness: a column with a joined row null on both sides, a joined row
\* null on one side only, and both matching and mismatching rows counted.
C9_Witness ==
    /\ Returned
    /\ \E c \in Compared :
          /\ \E p \in Matching : RowA(p)[c] = None /\ RowB(p)[c] = None
          /\ \E p \in Matching : (RowA(p)[c] = None) # (RowB(p)[c] = None)
          /\ Unwrap(report).column_stats[c].non_match_count > 0
             /\ Unwrap(report).column_stats[c].match_count > 0

\* C10: modified_rows_count is the number of joined rows in which some
\* compared column disagrees; so it is at least every column's
\* non_match_count, at most joined_count and at most the sum of the
\* non_match_counts; a column only B holds plays no part.
C10_ModifiedRows ==
    Returned =>
        LET r == Unwrap(report)
            nm == [c \in Compared |-> r.column_stats[c].non_match_count]
        IN /\ r.modified_rows_count =
                  CountRows({p \in Matching :
                                \E c \in Compared : Differs(RowA(p)[c], RowB(p)[c])})
           /\ \A c \in Compared : nm[c] <= r.modified_rows_count
           /\ r.modified_rows_count <= r.joined_count
           /\ r.modified_rows_count <= SumWeights(nm, Compared)

\* C10 witness: B holds a column A lacks, a column mismatches in fewer rows
\* than are modified, and some row is modified in two columns.
C10_Witness ==
    /\ Returned
    /\ ColNames(file_b.schema) \ ColNames(file_a.schema) # {}
    /\ LET r == Unwrap(report)
           nm == [c \in Compared |-> r.column_stats[c].non_match_count]
       IN /\ \E c \in Compared : 0 < nm[c] /\ nm[c] < r.modified_rows_count
          /\ r.modified_rows_count < SumWeights(nm, Compared)
          /\ r.modified_rows_count < r.joined_count

\* C8: the report of diff_files(A, B, K) and the earlier report of
\* diff_files(B, A, K) have added and removed exchanged.
C8_Symmetry ==
    (Returned /\ prev_report # None) =>
        /\ Unwrap(report).added = Unwrap(prev_report).removed
        /\ Unwrap(report).removed = Unwrap(prev_report).added

\* C8 witness: both calls returned, with different added and removed counts.
C8_Witness ==
    /\ Returned
    /\ prev_report # None
    /\ Unwrap(report).added > 0
    /\ Unwrap(report).removed > 0
    /\ Unwrap(report).added # Unwrap(report).removed

----------------------------------------------------------------------------
(* The explosion guard (SpecGuard).                                        *)

TotalRows(f) == SumWeights([i \in DOMAIN f.rows |-> f.rows[i].n], DOMAIN f.rows)

\* totalRows - unique, on one key column.
Duplicates(f, key) ==
    TotalRows(f) - Cardinality({f.rows[i].row[key] : i \in DOMAIN f.rows})

BothExceed ==
    /\ Duplicates(file_a, key_cols[1]) > DupThreshold
    /\ Duplicates(file_b, key_cols[1]) > DupThreshold

PastGuard == pc \in {"stats", "sample", "assemble", "done"} \/ "stats" \in Range(passes)

\* C2: the call aborts at the guard exactly when both files hold more than
\* 1000 duplicates of the first key column, and then neither the statistics
\* pass nor the sample pass has been issued; otherwise (one side above the
\* threshold, the other unique) the call goes on to the join passes.
C2_ExplosionGuard ==
    /\ err = "JoinExplosion" =>
          /\ BothExceed
          /\ "stats" \notin Range(passes)
          /\ "sample" \notin Range(passes)
          /\ pc = "error"
    /\ PastGuard => ~BothExceed
    /\ (pc = "error" /\ BothExceed /\ failed = {}) => err = "JoinExplosion"

\* C2 witness: the guard has aborted the call.
C2_Witness == pc = "error" /\ err = "JoinExplosion"

\* C2, the other case: A above the threshold, B unique, report returned.
C2_WitnessOneSide ==
    /\ Returned
    /\ Duplicates(file_a, key_cols[1]) > DupThreshold
    /\ Duplicates(file_b, key_cols[1]) = 0
    /\ TotalRows(file_b) > 0

----------------------------------------------------------------------------
(* Key columns missing from a schema (SpecSchema).                         *)

KeyMissing ==
    \E k \in Range(key_cols) :
        k \notin ColNames(file_a.schema) \/ k \notin ColNames(file_b.schema)

\* C4: with a key column missing from a schema the call fails, and it does
\* so before the join is planned and before any pass over the row data.
C4_KeyPrecondition ==
    KeyMissing => (~Returned /\ joined_lf = None /\ passes = <<>>)

----------------------------------------------------------------------------
(* max_value_diff (SpecSchema).                                            *)

HasMaxValueDiff(c) == "max_value_diff" \in DOMAIN Unwrap(report).column_stats[c]

NumericOnBothSides(c) ==
    /\ IsNumeric(SchemaGet(file_a.schema, c))
    /\ c \in ColNames(file_b.schema)
    /\ IsNumeric(SchemaGet(file_b.schema, c))

\* C6: for every column of schema A, key columns included, max_value_diff
\* is present iff source and target types are numeric.
C6_MaxValueDiffAllColumns ==
    Returned =>
        \A c \in ColNames(file_a.schema) : HasMaxValueDiff(c) <=> NumericOnBothSides(c)

\* C6 amended: the same for the non-key columns; a key column never holds
\* max_value_diff.
C6_MaxValueDiffNonKey ==
    Returned =>
        \A c \in ColNames(file_a.schema) :
            IF c \in Range(key_cols)
            THEN ~HasMaxValueDiff(c)
            ELSE HasMaxValueDiff(c) <=> NumericOnBothSides(c)

\* C6 witness: a report with a non-key column numeric on both sides (field
\* present) and a key column numeric on both sides (field absent).
C6_Witness ==
    /\ Returned
    /\ \E c \in ColNames(file_a.schema) \ Range(key_cols) :
          NumericOnBothSides(c) /\ HasMaxValueDiff(c)
    /\ \E c \in Range(key_cols) : NumericOnBothSides(c)

\* C6, one more case: a compared column numeric in A only.
C6_WitnessMixed ==
    /\ Returned
    /\ \E c \in Compared :
          /\ IsNumeric(SchemaGet(file_a.schema, c))
          /\ ~IsNumeric(SchemaGet(file_b.schema, c))
          /\ ~HasMaxValueDiff(c)

----------------------------------------------------------------------------
(* The sample caps (SpecSample).                                           *)

NumSamples(c) ==
    LET st == Unwrap(report).column_stats[c]
    IN IF "mismatched_samples" \in DOMAIN st THEN Len(st.mismatched_samples) ELSE 0

NonMatchCount(c) == Unwrap(report).column_stats[c].non_match_count

\* The sample buffer holds the modified joined rows in the order of A's rows
\* (and of B's rows within one row of A).
BufferInFileOrder ==
    global_samples =
        Some(Limit(FilterMask(JoinedRows, ComparedCols(file_a.schema, file_b.schema, key_cols)),
                   GlobalCap))

\* C5: a compared column with at least 5 mismatching joined rows holds
\* exactly 5 samples, whatever the other columns hold (stated for the runs
\* in which no pass failed and the buffer is in file order).
C5_ExactlyFiveSamples ==
    (Returned /\ failed = {} /\ BufferInFileOrder) =>
        \A c \in Compared : NonMatchCount(c) >= PerColumnCap => NumSamples(c) = PerColumnCap

\* The rows of the sample buffer in which column c differs.
BufferedDiffering(c) ==
    LET buf == Unwrap(global_samples)
    IN SumWeights([i \in DOMAIN buf |->
                      IF Differs(buf[i].l[c], buf[i].r[c]) THEN buf[i].n ELSE 0],
                  DOMAIN buf)

BufferHeight ==
    LET buf == Unwrap(global_samples)
    IN SumWeights([i \in DOMAIN buf |-> buf[i].n], DOMAIN buf)

\* C5 amended: the buffer holds min(100, modified_rows_count) modified
\* rows, and a compared column with non_match_count > 0 holds
\* min(5, d) samples, d the buffered rows in which it differs; after a
\* failed sample pass it holds none.
C5_SamplesFromBuffer ==
    Returned =>
        IF global_samples = None
        THEN \A c \in Compared : NumSamples(c) = 0
        ELSE /\ BufferHeight = Min(GlobalCap, Unwrap(report).modified_rows_count)
             /\ \A i \in DOMAIN Unwrap(global_samples) :
                   \E c \in Compared :
                       Differs(Unwrap(global_samples)[i].l[c], Unwrap(global_samples)[i].r[c])
             /\ \A c \in Compared :
                   NumSamples(c) = Min(PerColumnCap, BufferedDiffering(c))

\* C5 witness: more than 100 modified rows, the buffer cut at 100, and a
\* column with at least 5 mismatching rows that holds exactly 5 samples.
C5_Witness ==
    /\ Returned
    /\ global_samples # None
    /\ Unwrap(report).modified_rows_count > GlobalCap
    /\ \E c \in Compared : NonMatchCount(c) >= PerColumnCap /\ NumSamples(c) = PerColumnCap
    /\ \E c \in Compared : NonMatchCount(c) >= PerColumnCap /\ NumSamples(c) < PerColumnCap

====
